---- MODULE Spec2Model ----
(***************************************************************************)
(* In-memory FUSE filesystem of src/src/fs.c: three fixed-size registries  *)
(* (directory names, file names, file contents), one cursor per registry,  *)
(* and the six request handlers registered with the kernel bridge.         *)
(*                                                                         *)
(* Scaling.  The source uses 256 rows of 256 bytes per registry and a      *)
(* 32-bit int.  The model keeps the code's arithmetic and replaces the     *)
(* three sizes by NumSlots, BufSize and IntBits, so that the literal 255   *)
(* of the source reads NumSlots - 1 (last row) or BufSize - 1 (last byte   *)
(* of a row, the content cap) and int wraps modulo 2^IntBits.  As in the   *)
(* source, 2^(IntBits-1) is far larger than the whole content array.       *)
(*                                                                         *)
(* Strings.  A path is a sequence of character codes starting with 47      *)
(* ('/'); a stored name is the sequence of codes before the first NUL of   *)
(* its row.  files_content is kept byte by byte, as one flat array in      *)
(* row-major order (the layout of char files_content[256][256]), because   *)
(* the handlers address it with pointer arithmetic and derive a file's     *)
(* length from the first zero byte.                                        *)
(***************************************************************************)
EXTENDS Integers, Sequences, FiniteSets, TLC

\* Rows per registry (256 in the source).
NumSlots == 2
\* Bytes per row (256 in the source); a row holds BufSize - 1 bytes and a NUL.
BufSize == 3
\* Width of the C type int (32 in the source).
IntBits == 6

\* errno value returned (negated) for a path that does not resolve.
ENOENT == 2

MemSize == NumSlots * BufSize
IntMod == 2 ^ IntBits
IntHalf == 2 ^ (IntBits - 1)

VARIABLES
    dir_list,               \* [0..NumSlots-1 -> stored name]
    curr_dir_idx,           \* index of the last directory, -1 when empty
    files_list,             \* [0..NumSlots-1 -> stored name]
    curr_file_idx,          \* index of the last file, -1 when empty
    files_content,          \* [0..MemSize-1 -> byte], row i at i*BufSize
    curr_file_content_idx,  \* index of the last content row
    proc,                   \* "running", or "killed" by a faulting store
    last,                   \* the handler call whose result the bridge has
                            \* not collected yet (op "idle" when there is none)
    passed,                 \* history: the names handed to do_mkdir / do_mknod
    race                    \* two handler calls running unserialized: their
                            \* positions in add_dir / add_file (NoRace when the
                            \* bridge serializes the calls)

table == <<dir_list, curr_dir_idx, files_list, curr_file_idx,
           files_content, curr_file_content_idx>>
vars == <<dir_list, curr_dir_idx, files_list, curr_file_idx,
          files_content, curr_file_content_idx, proc, last, passed, race>>

(***************************************************************************)
(* C library and conversions                                               *)
(***************************************************************************)
Min(a, b) == IF a < b THEN a ELSE b
Max(a, b) == IF a > b THEN a ELSE b

\* Conversion of an integer to int: reduction modulo 2^IntBits into
\* [-2^(IntBits-1), 2^(IntBits-1)).
ToInt(x) ==
    LET m == x % IntMod
    IN  IF m >= IntHalf THEN m - IntMod ELSE m

\* strncpy(dst, src, n) followed by dst[n] = 0: the row then reads as the
\* first n characters of src (all of src when it is shorter).
strncpy(src, n) == SubSeq(src, 1, Min(Len(src), n))

\* strcmp(a, b) == 0
streq(a, b) == a = b

\* strlen of the C string starting at flat address base of mem: the distance
\* to the first zero byte (the scan is over the flat array; it stops at the
\* end of the array, which no reachable state lets it reach).
strlen(mem, base) ==
    LET zs == {a \in base .. (MemSize - 1) : mem[a] = 0}
    IN  IF zs = {} THEN MemSize - base
        ELSE (CHOOSE a \in zs : \A b \in zs : a <= b) - base

\* memset(mem + start, 0, n) restricted to the array.
memset0(mem, start, n) ==
    [a \in DOMAIN mem |-> IF start <= a /\ a < start + n THEN 0 ELSE mem[a]]

\* memcpy(mem + start, src, n) restricted to the array.
memcpy(mem, start, src, n) ==
    [a \in DOMAIN mem |->
        IF start <= a /\ a < start + n /\ a - start + 1 <= Len(src)
        THEN src[a - start + 1] ELSE mem[a]]

\* A terminator store that is lost.
poke0_lost(mem, at) == mem

\* mem[at] = 0 restricted to the array.
poke0(mem, at) == [a \in DOMAIN mem |-> IF a = at THEN 0 ELSE mem[a]]

\* The n bytes at start .. start+n-1 all lie inside files_content.
InArray(start, n) == n <= 0 \/ (start >= 0 /\ start + n <= MemSize)

\* The bytes of row i (all BufSize of them).
Row(mem, i) == [k \in 1 .. BufSize |-> mem[i * BufSize + k - 1]]

\* The C string held in row i: the bytes before the first NUL.
Content(mem, i) ==
    LET n == strlen(mem, i * BufSize)
    IN  [k \in 1 .. n |-> mem[i * BufSize + k - 1]]

(***************************************************************************)
(* Helper functions                                                        *)
(***************************************************************************)
\* add_dir with the capacity test off by one (> for >=).
add_dir_late_check(dir_name) ==
    IF curr_dir_idx > NumSlots - 1
    THEN UNCHANGED <<dir_list, curr_dir_idx>>
    ELSE /\ curr_dir_idx' = curr_dir_idx + 1
         /\ dir_list' = [dir_list EXCEPT
                            ![curr_dir_idx + 1] = strncpy(dir_name, BufSize - 1)]

add_dir(dir_name) ==
    IF curr_dir_idx >= NumSlots - 1
    THEN UNCHANGED <<dir_list, curr_dir_idx>>
    ELSE /\ curr_dir_idx' = curr_dir_idx + 1
         /\ dir_list' = [dir_list EXCEPT
                            ![curr_dir_idx + 1] = strncpy(dir_name, BufSize - 1)]

is_dir(path) ==
    IF \E curr_idx \in 0 .. curr_dir_idx : streq(Tail(path), dir_list[curr_idx])
    THEN 1 ELSE 0

\* add_file that opens the content slot before it tests the capacity.
add_file_drift(filename) ==
    /\ curr_file_content_idx' = curr_file_content_idx + 1
    /\ files_content' = poke0(files_content,
                              (curr_file_content_idx + 1) * BufSize)
    /\ IF curr_file_idx >= NumSlots - 1
       THEN UNCHANGED <<files_list, curr_file_idx>>
       ELSE /\ curr_file_idx' = curr_file_idx + 1
            /\ files_list' = [files_list EXCEPT
                               ![curr_file_idx + 1] =
                                   strncpy(filename, BufSize - 1)]

add_file(filename) ==
    IF curr_file_idx >= NumSlots - 1
    THEN UNCHANGED <<files_list, curr_file_idx, files_content,
                     curr_file_content_idx>>
    ELSE /\ curr_file_idx' = curr_file_idx + 1
         /\ files_list' = [files_list EXCEPT
                            ![curr_file_idx + 1] = strncpy(filename, BufSize - 1)]
         /\ curr_file_content_idx' = curr_file_content_idx + 1
         /\ files_content' = poke0(files_content,
                                   (curr_file_content_idx + 1) * BufSize)

\* is_file whose scan stops one entry early (< for <=).
is_file_short_scan(path) ==
    IF \E curr_idx \in 0 .. (curr_file_idx - 1) :
          streq(Tail(path), files_list[curr_idx])
    THEN 1 ELSE 0

is_file(path) ==
    IF \E curr_idx \in 0 .. curr_file_idx : streq(Tail(path), files_list[curr_idx])
    THEN 1 ELSE 0

\* get_file_index that keeps scanning and returns the last match.
get_file_index_last(path) ==
    LET hits == {curr_idx \in 0 .. curr_file_idx :
                    streq(Tail(path), files_list[curr_idx])}
    IN  IF hits = {} THEN -1
        ELSE CHOOSE i \in hits : \A j \in hits : i >= j

get_file_index(path) ==
    LET hits == {curr_idx \in 0 .. curr_file_idx :
                    streq(Tail(path), files_list[curr_idx])}
    IN  IF hits = {} THEN -1
        ELSE CHOOSE i \in hits : \A j \in hits : i <= j

(***************************************************************************)
(* Results of the handlers, as functions of the table and the arguments    *)
(***************************************************************************)
RootPath == <<47>>

\* do_getattr: the fields of *st the handler assigns (uid, gid and the two
\* time stamps come from the environment and are left out).  -1 stands for a
\* field the handler does not assign on that branch.
getattr(path) ==
    IF streq(path, RootPath) \/ is_dir(path) = 1
    THEN [ret |-> 0, st_mode |-> "S_IFDIR", st_nlink |-> 2, st_size |-> -1]
    ELSE IF is_file(path) = 1
    THEN LET file_idx == get_file_index(path)
         IN  [ret |-> 0, st_mode |-> "S_IFREG", st_nlink |-> 1,
              st_size |-> IF file_idx # -1
                          THEN strlen(files_content, file_idx * BufSize)
                          ELSE 0]
    ELSE [ret |-> -ENOENT, st_mode |-> "none", st_nlink |-> -1, st_size |-> -1]

\* do_readdir whose directory loop stops one entry early (< for <=).
readdir_short_scan(path) ==
    <<  <<46>>, <<46, 46>>  >> \o
    (IF streq(path, RootPath)
     THEN [k \in 1 .. curr_dir_idx |-> dir_list[k - 1]] \o
          [k \in 1 .. (curr_file_idx + 1) |-> files_list[k - 1]]
     ELSE << >>)

\* do_readdir that lists the files before the directories.
readdir_files_first(path) ==
    <<  <<46>>, <<46, 46>>  >> \o
    (IF streq(path, RootPath)
     THEN [k \in 1 .. (curr_file_idx + 1) |-> files_list[k - 1]] \o
          [k \in 1 .. (curr_dir_idx + 1) |-> dir_list[k - 1]]
     ELSE << >>)

\* do_readdir: the names handed to filler, in order.
readdir(path) ==
    <<  <<46>>, <<46, 46>>  >> \o
    (IF streq(path, RootPath)
     THEN [k \in 1 .. (curr_dir_idx + 1) |-> dir_list[k - 1]] \o
          [k \in 1 .. (curr_file_idx + 1) |-> files_list[k - 1]]
     ELSE << >>)

\* do_read without the "offset is beyond content" return.
read_past_end(path, size, offset) ==
    LET file_idx == get_file_index(path)
    IN  IF file_idx = -1 THEN [ret |-> -ENOENT, out |-> << >>]
        ELSE
        LET base == file_idx * BufSize
            len  == strlen(files_content, base)
            avail == ToInt(len - offset)
            bytes_to_read == IF avail > size THEN ToInt(size) ELSE avail
        IN  [ret |-> bytes_to_read,
             out |-> [k \in 1 .. bytes_to_read |->
                        files_content[base + offset + k - 1]]]

\* do_read without the "don't read more than requested" cut.
read_uncut(path, size, offset) ==
    LET file_idx == get_file_index(path)
    IN  IF file_idx = -1 THEN [ret |-> -ENOENT, out |-> << >>]
        ELSE
        LET base == file_idx * BufSize
            len  == strlen(files_content, base)
        IN  IF offset >= len THEN [ret |-> 0, out |-> << >>]
            ELSE
            LET bytes_to_read == ToInt(len - offset)
            IN  [ret |-> bytes_to_read,
                 out |-> [k \in 1 .. bytes_to_read |->
                            files_content[base + offset + k - 1]]]

\* do_read: the return value and the bytes copied into the caller's buffer.
read(path, size, offset) ==
    LET file_idx == get_file_index(path)
    IN  IF file_idx = -1 THEN [ret |-> -ENOENT, out |-> << >>]
        ELSE
        LET base == file_idx * BufSize
            len  == strlen(files_content, base)
        IN  IF offset >= len THEN [ret |-> 0, out |-> << >>]
            ELSE
            LET avail == ToInt(len - offset)
                bytes_to_read == IF avail > size THEN ToInt(size) ELSE avail
            IN  [ret |-> bytes_to_read,
                 out |-> [k \in 1 .. bytes_to_read |->
                            files_content[base + offset + k - 1]]]

\* do_write without the cap on new_len.
write_uncapped(path, buffer, size, offset) ==
    LET file_idx    == get_file_index(path)
        base        == file_idx * BufSize
        current_len == strlen(files_content, base)
        new_len     == ToInt(offset + size)
        pad         == offset > current_len
        m1          == IF pad
                       THEN memset0(files_content, base + current_len,
                                    offset - current_len)
                       ELSE files_content
        bytes_to_write == ToInt(new_len - offset)
        m2          == IF bytes_to_write > 0
                       THEN poke0(memcpy(m1, base + offset, buffer, bytes_to_write),
                                  base + new_len)
                       ELSE m1
        stray       == \/ pad /\ ~InArray(base + current_len, offset - current_len)
                       \/ /\ bytes_to_write > 0
                          /\ \/ ~InArray(base + offset, bytes_to_write)
                             \/ ~InArray(base + new_len, 1)
        over        == IF pad THEN Max(0, base + offset - MemSize) ELSE 0
    IN  [ret |-> IF bytes_to_write > 0 THEN bytes_to_write ELSE 0,
         mem |-> m2, stray |-> stray, over |-> over, new_len |-> new_len,
         bytes_to_write |-> bytes_to_write]

\* do_write on an existing file: the return value, the content array after
\* the stores that fall inside it, whether any store fell outside it, and how
\* many bytes past the end of the array the zero fill runs (over).
write(path, buffer, size, offset) ==
    LET file_idx    == get_file_index(path)
        base        == file_idx * BufSize
        current_len == strlen(files_content, base)
        sum         == ToInt(offset + size)
        new_len     == IF sum > BufSize - 1 THEN BufSize - 1 ELSE sum
        pad         == offset > current_len
        m1          == IF pad
                       THEN memset0(files_content, base + current_len,
                                    offset - current_len)
                       ELSE files_content
        bytes_to_write == ToInt(new_len - offset)
        m2          == IF bytes_to_write > 0
                       THEN poke0(memcpy(m1, base + offset, buffer, bytes_to_write),
                                  base + new_len)
                       ELSE m1
        stray       == \/ pad /\ ~InArray(base + current_len, offset - current_len)
                       \/ /\ bytes_to_write > 0
                          /\ \/ ~InArray(base + offset, bytes_to_write)
                             \/ ~InArray(base + new_len, 1)
        over        == IF pad THEN Max(0, base + offset - MemSize) ELSE 0
    IN  [ret |-> IF bytes_to_write > 0 THEN bytes_to_write ELSE 0,
         mem |-> m2, stray |-> stray, over |-> over, new_len |-> new_len,
         bytes_to_write |-> bytes_to_write]

(***************************************************************************)
(* Inputs                                                                  *)
(***************************************************************************)
NameA == <<97>>
NameB == <<98>>
\* A name one character longer than a row can hold.
LongName == [k \in 1 .. BufSize |-> 97]

PathOf(name) == RootPath \o name

CreateNames == {NameA, LongName}
QueryPaths == {RootPath, PathOf(NameA), PathOf(NameB), PathOf(LongName),
               PathOf(strncpy(LongName, BufSize - 1))}
\* Paths that name a file once it is created, and one that never does.
FilePaths == {PathOf(NameA), PathOf(strncpy(LongName, BufSize - 1))}
MissingPath == PathOf(NameB)

\* A payload longer than a row.
BigData == [k \in 1 .. (BufSize + 1) |-> 89]
DataSet == {<< >>, <<88>>, <<89, 88>>, <<0, 88>>, BigData}

\* <<data, offset>>: every payload at the start of a row and one byte in;
\* a one-byte payload at the cap, past the row, past the array and past the
\* range of int.
FarOffsets == {BufSize - 1, BufSize + 1, MemSize + 1, IntHalf, IntMod + 1}
WriteArgs == (DataSet \X {0, 1}) \cup ({<<88>>} \X FarOffsets)
\* <<path, data, offset>>: all of them on the first path, one plain write on
\* the second, one write on a path that names no file.
WriteCalls == {<<PathOf(NameA), a[1], a[2]>> : a \in WriteArgs}
                  \cup {<<PathOf(strncpy(LongName, BufSize - 1)), <<88>>, 0>>}
                  \cup {<<MissingPath, <<88>>, 0>>}
\* <<path, size, offset>>
ReadCalls == (FilePaths \X {1, BufSize + 2} \X {0, 1})
                 \cup {<<MissingPath, 1, 0>>}

\* A handler call: its arguments, its return value, what it handed back
\* (out) and how its stores ended: "ok", "stray" (a store fell outside
\* the table and the handler went on), "clobber" (a store fell on the name
\* registries) or "fault" (the store faulted).
Call(op, path, buf, size, offset, ret, out, ub) ==
    [op |-> op, path |-> path, buf |-> buf, size |-> size, offset |-> offset,
     ret |-> ret, out |-> out, ub |-> ub]

Idle == Call("idle", RootPath, << >>, 0, 0, 0, << >>, "ok")

\* No calls are running unserialized.
NoRace == [start |-> << >>, overlap |-> FALSE, thr |-> << >>]

(***************************************************************************)
(* The handlers.  The bridge serializes the calls: it enters a handler     *)
(* only when no call is in progress (Ready), and collects the handler's    *)
(* result (fuse_reply) before it issues the next call.                     *)
(***************************************************************************)
Ready == proc = "running" /\ last.op = "idle"

Init ==
    /\ dir_list = [i \in 0 .. (NumSlots - 1) |-> << >>]
    /\ curr_dir_idx = -1
    /\ files_list = [i \in 0 .. (NumSlots - 1) |-> << >>]
    /\ curr_file_idx = -1
    /\ files_content = [a \in 0 .. (MemSize - 1) |-> 0]
    /\ curr_file_content_idx = -1
    /\ proc = "running"
    /\ last = Idle
    /\ passed = {}
    /\ race = NoRace

do_getattr(path) ==
    /\ Ready
    /\ last' = Call("getattr", path, << >>, 0, 0, getattr(path).ret, getattr(path),
                    "ok")
    /\ UNCHANGED <<table, proc, passed, race>>

do_readdir(path) ==
    /\ Ready
    /\ last' = Call("readdir", path, << >>, 0, 0, 0, readdir(path), "ok")
    /\ UNCHANGED <<table, proc, passed, race>>

do_read(path, size, offset) ==
    /\ Ready
    /\ last' = Call("read", path, << >>, size, offset,
                    read(path, size, offset).ret, read(path, size, offset).out,
                    "ok")
    /\ UNCHANGED <<table, proc, passed, race>>

do_mkdir(path) ==
    /\ Ready
    /\ add_dir(Tail(path))
    /\ last' = Call("mkdir", path, << >>, 0, 0, 0, << >>, "ok")
    /\ passed' = passed \cup {Tail(path)}
    /\ UNCHANGED <<files_list, curr_file_idx, files_content,
                   curr_file_content_idx, proc, race>>

do_mknod(path) ==
    /\ Ready
    /\ add_file(Tail(path))
    /\ last' = Call("mknod", path, << >>, 0, 0, 0, << >>, "ok")
    /\ passed' = passed \cup {Tail(path)}
    /\ UNCHANGED <<dir_list, curr_dir_idx, proc, race>>

\* A name registry after a zero fill has run over its first n bytes: a row
\* whose first byte is zeroed reads as the empty name.
wiped(list, n) ==
    [k \in DOMAIN list |-> IF k * BufSize < n THEN << >> ELSE list[k]]

\* A zero fill has run over the name registries: a row below the cursor reads
\* as the empty name, which no create stores.
Clobbered == \E i \in 0 .. curr_file_idx : files_list[i] = << >>

\* A store outside files_content is undefined behaviour, and what it does
\* depends on what the build places around the array.  Compiled without
\* optimization the three arrays lie in the order of their definitions and
\* files_content is the last object of the program: a store past it lands
\* in memory that is not part of the table ("stray") or faults and ends the
\* process ("fault").  Compiled with optimization the order is reversed:
\* files_list follows files_content directly and dir_list follows files_list,
\* so the zero fill that runs past files_content erases names ("clobber").
\* The payload copy and the terminator fall outside the array only when int
\* wraps, and then farther away than the three arrays are long.  (A store
\* past the end of a row but inside the array lands in the following rows,
\* as the flat layout of the array has it.)  The payloads are far shorter
\* than 2^(IntBits-1), as the writes a bridge hands over are; the offsets
\* are any non-negative off_t.  A run is followed through one fill over the
\* name registries; the fills after it are followed as "stray" or "fault".
do_write(path, buffer, offset) ==
    /\ Ready
    /\ LET size == Len(buffer)
           w    == write(path, buffer, size, offset)
       IN  IF get_file_index(path) = -1
           THEN /\ last' = Call("write", path, buffer, size, offset, -ENOENT,
                                << >>, "ok")
                /\ UNCHANGED <<files_content, files_list, dir_list, proc>>
           ELSE IF ~w.stray
           THEN /\ files_content' = w.mem
                /\ last' = Call("write", path, buffer, size, offset, w.ret,
                                << >>, "ok")
                /\ UNCHANGED <<files_list, dir_list, proc>>
           ELSE \/ /\ files_content' = w.mem
                   /\ last' = Call("write", path, buffer, size, offset, w.ret,
                                   << >>, "stray")
                   /\ UNCHANGED <<files_list, dir_list, proc>>
                \/ /\ w.over > 0
                   /\ ~Clobbered
                   /\ files_content' = w.mem
                   /\ files_list' = wiped(files_list, w.over)
                   /\ dir_list' = wiped(dir_list, w.over - MemSize)
                   /\ last' = Call("write", path, buffer, size, offset, w.ret,
                                   << >>, "clobber")
                   /\ UNCHANGED proc
                \/ /\ proc' = "killed"
                   /\ last' = Call("write", path, buffer, size, offset, 0,
                                   << >>, "fault")
                   /\ UNCHANGED <<files_content, files_list, dir_list>>
    /\ UNCHANGED <<curr_dir_idx, curr_file_idx, curr_file_content_idx, passed,
                   race>>

fuse_reply ==
    /\ proc = "running"
    /\ last.op # "idle"
    /\ last' = Idle
    /\ UNCHANGED <<table, proc, passed, race>>

Next ==
    \/ \E path \in QueryPaths : do_getattr(path)
    \/ \E path \in {RootPath, PathOf(NameA)} : do_readdir(path)
    \/ \E c \in ReadCalls : do_read(c[1], c[2], c[3])
    \/ \E name \in CreateNames : do_mkdir(PathOf(name))
    \/ \E name \in CreateNames : do_mknod(PathOf(name))
    \/ \E c \in WriteCalls : do_write(c[1], c[2], c[3])
    \/ fuse_reply

Spec == Init /\ [][Next]_vars

(***************************************************************************)
(* Unserialized calls.  Nothing in the source locks the table, so a bridge  *)
(* that runs handlers on several threads lets two do_mknod (or two          *)
(* do_mkdir) calls interleave between the statements of add_file (add_dir): *)
(* the capacity test, the cursor increment (a load and a store), the name   *)
(* copy, the content-cursor increment and the content initialisation.  The  *)
(* unsynchronized accesses are a data race: a statement that uses the       *)
(* cursor may use the value its thread stored (kept in a register, reg) or  *)
(* the value the variable holds now.                                        *)
(***************************************************************************)
\* add_dir as a function of the table t (the tuple `table`).
after_add_dir(t, dir_name) ==
    IF t[2] >= NumSlots - 1 THEN t
    ELSE <<[t[1] EXCEPT ![t[2] + 1] = strncpy(dir_name, BufSize - 1)], t[2] + 1,
           t[3], t[4], t[5], t[6]>>

\* add_file as a function of the table t.
after_add_file(t, filename) ==
    IF t[4] >= NumSlots - 1 THEN t
    ELSE <<t[1], t[2],
           [t[3] EXCEPT ![t[4] + 1] = strncpy(filename, BufSize - 1)], t[4] + 1,
           poke0(t[5], (t[6] + 1) * BufSize), t[6] + 1>>

\* The capacity test with > for >=.
Full_late(idx) == idx > NumSlots - 1

\* The capacity test of add_dir and add_file.
Full(idx) == idx >= NumSlots - 1

\* A call that has not executed its first statement.
Thread(kind, name) == [pc |-> "check", kind |-> kind, name |-> name, reg |-> -1]

\* The bridge issues two calls of one kind without waiting for the first.
Fork(kind, n1, n2) ==
    /\ Ready
    /\ race = NoRace
    /\ race' = [start |-> table, overlap |-> FALSE,
                thr |-> <<Thread(kind, n1), Thread(kind, n2)>>]
    /\ passed' = passed \cup {n1, n2}
    /\ UNCHANGED <<table, proc, last>>

\* Thread t executes its next statement.  A store to a row past the end of
\* its array is undefined behaviour: it lands outside the table or faults.
Step(t) ==
    LET th     == race.thr[t]
        other  == race.thr[3 - t]
        isdir  == th.kind = "mkdir"
        cursor == IF isdir THEN curr_dir_idx ELSE curr_file_idx
        moved(pc, reg) ==
            [race EXCEPT !.thr[t].pc = pc, !.thr[t].reg = reg,
                         !.overlap = @ \/ other.pc \notin {"check", "done"}]
        inrow(idx) == idx \in 0 .. (NumSlots - 1)
    IN
    /\ proc = "running"
    /\ race # NoRace
    /\ th.pc # "done"
    /\ UNCHANGED <<last, passed>>
    /\ CASE th.pc = "check" ->
              /\ race' = moved(IF Full(cursor) THEN "done" ELSE "load", th.reg)
              /\ UNCHANGED <<table, proc>>
         [] th.pc = "load" ->
              /\ race' = moved("inc", cursor)
              /\ UNCHANGED <<table, proc>>
         [] th.pc = "inc" ->
              /\ race' = moved("copy", th.reg + 1)
              /\ IF isdir
                 THEN curr_dir_idx' = th.reg + 1 /\ UNCHANGED curr_file_idx
                 ELSE curr_file_idx' = th.reg + 1 /\ UNCHANGED curr_dir_idx
              /\ UNCHANGED <<dir_list, files_list, files_content,
                             curr_file_content_idx, proc>>
         [] th.pc = "copy" ->
              /\ race' = moved(IF isdir THEN "done" ELSE "cload", th.reg)
              /\ UNCHANGED <<curr_dir_idx, curr_file_idx, files_content,
                             curr_file_content_idx>>
              /\ \E idx \in {th.reg, cursor} :
                    IF inrow(idx)
                    THEN /\ IF isdir
                            THEN /\ dir_list' = [dir_list EXCEPT ![idx] =
                                                   strncpy(th.name, BufSize - 1)]
                                 /\ UNCHANGED files_list
                            ELSE /\ files_list' = [files_list EXCEPT ![idx] =
                                                   strncpy(th.name, BufSize - 1)]
                                 /\ UNCHANGED dir_list
                         /\ UNCHANGED proc
                    ELSE /\ UNCHANGED <<dir_list, files_list>>
                         /\ proc' \in {"running", "killed"}
         [] th.pc = "cload" ->
              /\ race' = moved("cinc", curr_file_content_idx)
              /\ UNCHANGED <<table, proc>>
         [] th.pc = "cinc" ->
              /\ race' = moved("cinit", th.reg + 1)
              /\ curr_file_content_idx' = th.reg + 1
              /\ UNCHANGED <<dir_list, curr_dir_idx, files_list, curr_file_idx,
                             files_content, proc>>
         [] th.pc = "cinit" ->
              /\ race' = moved("done", th.reg)
              /\ UNCHANGED <<dir_list, curr_dir_idx, files_list, curr_file_idx,
                             curr_file_content_idx>>
              /\ \E idx \in {th.reg, curr_file_content_idx} :
                    IF inrow(idx)
                    THEN /\ files_content' = poke0(files_content, idx * BufSize)
                         /\ UNCHANGED proc
                    ELSE /\ UNCHANGED files_content
                         /\ proc' \in {"running", "killed"}

\* Serialized creates fill the table, then two calls run unserialized.
NextConc ==
    \/ race = NoRace /\ \E name \in CreateNames : do_mkdir(PathOf(name))
    \/ race = NoRace /\ \E name \in CreateNames : do_mknod(PathOf(name))
    \/ race = NoRace /\ fuse_reply
    \/ \E kind \in {"mkdir", "mknod"} : Fork(kind, NameA, NameB)
    \/ \E t \in {1, 2} : Step(t)

SpecConc == Init /\ [][NextConc]_vars

(***************************************************************************)
(* Properties                                                              *)
(***************************************************************************)
\* The call awaiting its reply is a write that found its file and returned.
WroteFile == last.op = "write" /\ last.ret # -ENOENT /\ last.ub # "fault"

\* The step is do_write(p, d, o) on an existing file, and it returned.
WriteStep(p, d, o) ==
    /\ last.op = "idle"
    /\ last'.op = "write" /\ last'.path = p /\ last'.buf = d /\ last'.offset = o
    /\ last'.ret # -ENOENT /\ last'.ub # "fault"

Zeros(n) == [k \in 1 .. n |-> 0]

\* C1: after WriteFile(path, data, 0) on an existing file, with
\* len(data) <= BufSize - 1 (255 in the source) and whatever the file held
\* before, ReadFile(path, len(data), 0) returns exactly data.
C1_RoundTrip ==
    (WroteFile /\ last.offset = 0 /\ last.size <= BufSize - 1)
        => read(last.path, last.size, 0) = [ret |-> last.size, out |-> last.buf]

\* C2: a WriteFile(path, data, offset) with offset > L (the content length),
\* len(data) >= 1 and offset + len(data) <= BufSize - 1 zero-fills the gap: a
\* following ReadFile(path, size, 0) with size >= offset + len(data) returns
\* the old L bytes, then offset - L zero bytes, then data.
C2_SparseWrite ==
    [][\A p \in FilePaths, arg \in WriteArgs :
        LET d == arg[1]
            o == arg[2]
            i == get_file_index(p)
            old == Content(files_content, i)
        IN  (/\ WriteStep(p, d, o)
             /\ o > Len(old) /\ Len(d) >= 1 /\ o + Len(d) <= BufSize - 1)
            => \A size \in {o + Len(d), BufSize + 2} :
                  read(p, size, 0)' =
                      [ret |-> o + Len(d),
                       out |-> old \o Zeros(o - Len(old)) \o d]]_vars

\* C3: in every reachable state the content length of every file is at most
\* BufSize - 1 (255), and a terminator lies inside the file's own row.
C3_ContentBounded ==
    \A i \in 0 .. curr_file_idx :
        /\ strlen(files_content, i * BufSize) <= BufSize - 1
        /\ \E k \in 0 .. (BufSize - 1) : files_content[i * BufSize + k] = 0

\* A payload longer than a row was written at offset 0 and filled the row up
\* to the cap.
C3_Witness ==
    /\ WroteFile /\ last.buf = BigData /\ last.offset = 0
    /\ last.ret = BufSize - 1
    /\ strlen(files_content, get_file_index(last.path) * BufSize) = BufSize - 1

ProbeSizes == {0, 1, 2, BufSize + 2, IntHalf, IntMod + 1}
ProbeOffsets == (0 .. BufSize) \cup {IntHalf, IntMod}

\* What the claim says ReadFile(p, size, offset) returns for an existing file.
ReadClaimed(p, size, offset) ==
    LET c == Content(files_content, get_file_index(p))
        L == Len(c)
        n == Min(size, L - offset)
    IN  IF offset >= L THEN [ret |-> 0, out |-> << >>]
        ELSE [ret |-> n, out |-> SubSeq(c, offset + 1, offset + n)]

\* C4: ReadFile(path, size, offset) on an existing file of content length L
\* returns zero bytes (ret 0, not -ENOENT) when offset >= L, and otherwise the
\* min(size, L - offset) content bytes starting at offset; never a byte at a
\* position >= L.  Stated of every read the bridge can issue (in a Ready
\* state, for every probed size and offset) and of the read that was issued.
C4_ReadBounded ==
    /\ Ready =>
          \A p \in FilePaths :
              get_file_index(p) # -1 =>
                  \A size \in ProbeSizes, offset \in ProbeOffsets :
                      read(p, size, offset) = ReadClaimed(p, size, offset)
    /\ (last.op = "read" /\ last.ret # -ENOENT) =>
          /\ last.ret = ReadClaimed(last.path, last.size, last.offset).ret
          /\ last.out = ReadClaimed(last.path, last.size, last.offset).out

\* A read at offset == L of a non-empty file returned zero bytes with ret 0.
C4_Witness ==
    /\ last.op = "read" /\ last.ret = 0 /\ last.out = << >>
    /\ get_file_index(last.path) # -1
    /\ last.offset >= 1
    /\ last.offset = strlen(files_content, get_file_index(last.path) * BufSize)

\* C5: GetAttributes returns NotFound for every non-root path whose name was
\* never passed to CreateDirectory or CreateFile, and GetAttributes("/")
\* always returns Directory attributes (link count 2).
C5_UncreatedNotFound ==
    /\ \A p \in QueryPaths :
          (p # RootPath /\ Tail(p) \notin passed) => getattr(p).ret = -ENOENT
    /\ getattr(RootPath).ret = 0
    /\ getattr(RootPath).st_mode = "S_IFDIR"
    /\ getattr(RootPath).st_nlink = 2

\* The step is do_mkdir / do_mknod on "/" + name.
MkdirStep(name) ==
    last.op = "idle" /\ last'.op = "mkdir" /\ last'.path = PathOf(name)
MknodStep(name) ==
    last.op = "idle" /\ last'.op = "mknod" /\ last'.path = PathOf(name)

\* How often x occurs in a listing.
Count(seq, x) == Cardinality({k \in 1 .. Len(seq) : seq[k] = x})

\* The name a row holds after name was copied into it.
Stored(name) == strncpy(name, BufSize - 1)

DirAttrs == [ret |-> 0, st_mode |-> "S_IFDIR", st_nlink |-> 2, st_size |-> -1]
EmptyFileAttrs == [ret |-> 0, st_mode |-> "S_IFREG", st_nlink |-> 1, st_size |-> 0]

\* The names that fit a row unchanged.
FittingNames == {name \in CreateNames : Len(name) <= BufSize - 1}

\* C6 as stated: for every name, after CreateDirectory("/" + name),
\* GetAttributes("/" + name) reports Directory attributes and
\* ListDirectory("/") contains name exactly once more than before the call
\* (stated here for the names that fit a row).
C6_AsStated ==
    [][\A name \in FittingNames :
        MkdirStep(name) =>
            /\ getattr(PathOf(name))' = DirAttrs
            /\ Count(readdir(RootPath)', name) =
                   Count(readdir(RootPath), name) + 1]_vars

\* C6 amended: a CreateDirectory("/" + name) issued while the directory
\* registry is not full makes GetAttributes("/" + n) report Directory
\* attributes and ListDirectory("/") contain n exactly once more than
\* before, n being name cut to its first BufSize - 1 (255) bytes; issued
\* when the registry is full it leaves the listing as it was.
C6_MkdirListed ==
    [][\A name \in CreateNames :
        MkdirStep(name) =>
            IF curr_dir_idx + 1 < NumSlots
            THEN /\ getattr(PathOf(Stored(name)))' = DirAttrs
                 /\ Count(readdir(RootPath)', Stored(name)) =
                        Count(readdir(RootPath), Stored(name)) + 1
            ELSE readdir(RootPath)' = readdir(RootPath)]_vars

\* A directory was just appended under a name the listing already held.
C6_Witness ==
    /\ last.op = "mkdir"
    /\ curr_dir_idx = 1
    /\ dir_list[1] = Stored(Tail(last.path))
    /\ Count(readdir(RootPath), dir_list[1]) >= 2
    /\ getattr(PathOf(dir_list[1])) = DirAttrs

\* C7 as stated: for every name, after CreateFile("/" + name),
\* GetAttributes("/" + name) reports File attributes (regular, link count 1)
\* with size 0 (stated here for the names that fit a row).
C7_AsStated ==
    [][\A name \in FittingNames :
        MknodStep(name) => getattr(PathOf(name))' = EmptyFileAttrs]_vars

\* C7 amended: a CreateFile("/" + name) with a non-empty name, issued while
\* the file registry is not full and no directory and no file is stored
\* under n (name cut to its first BufSize - 1 bytes), makes
\* GetAttributes("/" + n) report File attributes with size 0.
C7_MknodEmptyFile ==
    [][\A name \in CreateNames :
        (/\ MknodStep(name)
         /\ curr_file_idx + 1 < NumSlots
         /\ \A i \in 0 .. curr_dir_idx : dir_list[i] # Stored(name)
         /\ \A i \in 0 .. curr_file_idx : files_list[i] # Stored(name))
        => getattr(PathOf(Stored(name)))' = EmptyFileAttrs]_vars

\* A second file was just created next to a file that holds content, and
\* its attributes are those of an empty regular file.
C7_Witness ==
    /\ last.op = "mknod"
    /\ curr_file_idx = 1
    /\ files_list[1] = Stored(Tail(last.path))
    /\ files_list[0] # files_list[1]
    /\ strlen(files_content, 0) > 0
    /\ is_dir(PathOf(files_list[1])) = 0
    /\ getattr(PathOf(files_list[1])) = EmptyFileAttrs

\* C8: the number of directories and the number of files never exceed the
\* capacity NumSlots (256); a CreateDirectory or CreateFile issued when its
\* registry is full returns 0 and leaves every registry, cursor and content
\* buffer unchanged.
C8_Capacity ==
    [][/\ curr_dir_idx' + 1 <= NumSlots
       /\ curr_file_idx' + 1 <= NumSlots
       /\ \A name \in CreateNames :
             /\ (MkdirStep(name) /\ curr_dir_idx + 1 = NumSlots)
                    => (last'.ret = 0 /\ UNCHANGED table)
             /\ (MknodStep(name) /\ curr_file_idx + 1 = NumSlots)
                    => (last'.ret = 0 /\ UNCHANGED table)]_vars

\* A CreateDirectory was dropped: the registry is full and holds no row for
\* the name just passed.
C8_Witness ==
    /\ last.op = "mkdir" /\ last.ret = 0
    /\ curr_dir_idx + 1 = NumSlots
    /\ \A i \in 0 .. curr_dir_idx : dir_list[i] # Stored(Tail(last.path))

\* C9: the file-name registry and the file-content registry always hold the
\* same number of entries; a CreateFile that appends a name appends an empty
\* content slot at the same index in the same step, and a CreateFile dropped
\* at capacity creates no content slot.
C9_Coupled ==
    [][/\ curr_file_idx' = curr_file_content_idx'
       /\ \A name \in CreateNames :
             MknodStep(name) =>
                 IF curr_file_idx + 1 < NumSlots
                 THEN /\ curr_file_idx' = curr_file_idx + 1
                      /\ curr_file_content_idx' = curr_file_idx'
                      /\ files_list'[curr_file_idx'] = Stored(name)
                      /\ strlen(files_content', curr_file_idx' * BufSize) = 0
                 ELSE UNCHANGED <<files_list, curr_file_idx, files_content,
                                  curr_file_content_idx>>]_vars

\* A CreateFile just appended row 1: both cursors stand at 1, the row holds
\* the name and an empty content, and row 0 holds a non-empty content.
C9_Witness ==
    /\ last.op = "mknod"
    /\ curr_file_idx = 1 /\ curr_file_content_idx = 1
    /\ files_list[1] = Stored(Tail(last.path))
    /\ strlen(files_content, BufSize) = 0
    /\ strlen(files_content, 0) = BufSize - 1

\* C10: WriteFile(path, data, offset) on an existing file returns
\* max(min(offset + len(data), BufSize - 1) - offset, 0), and that many bytes
\* of data are what the buffer holds at offset afterwards.
C10_ReturnCount ==
    WroteFile =>
        LET n == Max(Min(last.offset + last.size, BufSize - 1) - last.offset, 0)
            base == get_file_index(last.path) * BufSize
        IN  /\ last.ret = n
            /\ \A k \in 1 .. n :
                  files_content[base + last.offset + k - 1] = last.buf[k]

\* The listing a ListDirectory call handed back is "." and "..", followed,
\* for the root, by the stored directory rows in index order and then the
\* stored file rows in index order, each row once; the call returns 0.
Listed ==
    last.op = "readdir" =>
        LET nd == curr_dir_idx + 1
            nf == curr_file_idx + 1
        IN  /\ last.ret = 0
            /\ SubSeq(last.out, 1, 2) = << <<46>>, <<46, 46>> >>
            /\ IF last.path = RootPath
               THEN /\ Len(last.out) = 2 + nd + nf
                    /\ \A k \in 1 .. nd : last.out[2 + k] = dir_list[k - 1]
                    /\ \A k \in 1 .. nf : last.out[2 + nd + k] = files_list[k - 1]
               ELSE Len(last.out) = 2

\* C11: ListDirectory always yields "." then ".." first; for the root it then
\* yields every directory name in insertion order followed by every file
\* name in insertion order, each stored entry exactly once (duplicates
\* included); for any other path it yields the two pseudo-entries only; it
\* never fails.  Insertion order: a create that appends puts its name behind
\* every name of its registry that the listing already had.
C11_Listing ==
    [][/\ Listed'
       /\ \A name \in CreateNames :
             /\ (MkdirStep(name) /\ curr_dir_idx + 1 < NumSlots) =>
                    readdir(RootPath)' =
                        SubSeq(readdir(RootPath), 1, 2 + curr_dir_idx + 1)
                        \o << Stored(name) >>
                        \o SubSeq(readdir(RootPath), 2 + curr_dir_idx + 2,
                                  Len(readdir(RootPath)))
             /\ (MknodStep(name) /\ curr_file_idx + 1 < NumSlots) =>
                    readdir(RootPath)' = Append(readdir(RootPath), Stored(name))]_vars

\* The root was listed while it held two directories of one name and a file:
\* the listing has five entries and shows the duplicate twice.
C11_Witness ==
    /\ last.op = "readdir" /\ last.path = RootPath
    /\ curr_dir_idx = 1 /\ curr_file_idx >= 0
    /\ dir_list[0] = dir_list[1] /\ dir_list[0] # << >>
    /\ Len(last.out) >= 5
    /\ last.out[3] = last.out[4]
    /\ last.out[5] = files_list[0]

\* C12: the only failure a handler reports is NotFound (-ENOENT).  A ReadFile
\* or WriteFile on a path that matches no file returns NotFound and leaves
\* the whole table unchanged; for every non-negative size and offset no
\* handler returns a negative value other than NotFound; CreateDirectory and
\* CreateFile always return 0.
C12_OnlyNotFound ==
    [][(last.op = "idle" /\ last'.op # "idle") =>
          /\ last'.ret >= 0 \/ last'.ret = -ENOENT
          /\ (last'.op \in {"read", "write"} /\ get_file_index(last'.path) = -1)
                 => (last'.ret = -ENOENT /\ UNCHANGED table)
          /\ last'.op \in {"mkdir", "mknod"} => last'.ret = 0]_vars

\* A WriteFile on a path that matches no file was answered NotFound while the
\* table holds a file with content.
C12_Witness ==
    /\ last.op = "write" /\ last.ret = -ENOENT
    /\ get_file_index(last.path) = -1
    /\ curr_file_idx >= 0
    /\ strlen(files_content, 0) > 0

\* The step is a write of d at offset 0 to the file p names, which was empty
\* (as a file just created is) before the step.
FirstWrite(p, d) ==
    /\ WriteStep(p, d, 0)
    /\ strlen(files_content, get_file_index(p) * BufSize) = 0

\* C13: the size GetAttributes reports is the content length.  After
\* CreateFile(path) and WriteFile(path, data, 0) with len(data) <= BufSize - 1
\* (255), GetAttributes(path) reports a regular file of size len(data); and
\* in every state the reported size of a file equals the number of bytes
\* ReadFile(path, BufSize - 1, 0) returns.
C13_SizeIsLength ==
    [][/\ \A p \in FilePaths : \A d \in DataSet :
             (FirstWrite(p, d) /\ Len(d) <= BufSize - 1 /\ is_dir(p) = 0)
                 => /\ getattr(p)'.st_mode = "S_IFREG"
                    /\ getattr(p)'.st_size = Len(d)
       /\ \A p \in FilePaths :
             (getattr(p).st_mode = "S_IFREG")
                 => getattr(p).st_size = read(p, BufSize - 1, 0).ret]_vars

\* After the write step of d at offset o to the file p names, the byte at
\* new_len = min(o + len(d), BufSize - 1) of that file's row is the
\* terminator and the content is at most new_len long.
TerminatedAt(p, d, o) ==
    LET new_len == Min(o + Len(d), BufSize - 1)
        base    == get_file_index(p) * BufSize
    IN  /\ files_content'[base + new_len] = 0
        /\ strlen(files_content', base) <= new_len

\* C14 as stated: after every WriteFile on an existing file the terminator
\* stands at new_len and the content is at most new_len long, also when
\* zero bytes are copied (empty data, or an offset at or past the cap).
C14_AsStated ==
    [][\A p \in FilePaths : \A arg \in WriteArgs :
          WriteStep(p, arg[1], arg[2]) => TerminatedAt(p, arg[1], arg[2])]_vars

\* C14: after every WriteFile of at least one byte of data on an existing
\* file the terminator stands at new_len = min(offset + len(data), 255) and
\* the content is at most new_len long, so that a write ending before the
\* old end discards the old tail; this holds also when the offset is at or
\* past the cap and no byte is copied.  A write of empty data stores no
\* terminator: the content keeps its bytes and its length.
C14_Terminated ==
    [][\A p \in FilePaths : \A arg \in WriteArgs :
          WriteStep(p, arg[1], arg[2]) =>
              IF Len(arg[1]) >= 1
              THEN TerminatedAt(p, arg[1], arg[2])
              ELSE Content(files_content', get_file_index(p))
                       = Content(files_content, get_file_index(p))]_vars

\* A one-byte write at offset 0 ended before the cap: the terminator stands
\* right behind the byte and the row reads as that byte alone.
C14_Witness ==
    /\ WroteFile /\ last.ub = "ok"
    /\ last.size = 1 /\ last.offset = 0 /\ last.ret = 1
    /\ get_file_index(last.path) = 0
    /\ BufSize - 1 > 1
    /\ files_content[0] = last.buf[1]
    /\ files_content[1] = 0
    /\ strlen(files_content, 0) = 1

\* The indices of the stored files whose name is the basename of p.
Matches(p) == {i \in 0 .. curr_file_idx : files_list[i] = Tail(p)}

\* The lowest of them.
Lowest(p) == CHOOSE i \in Matches(p) : \A j \in Matches(p) : i <= j

\* C15: entries of one name coexist and every lookup takes the first match
\* in insertion order.  When several files share a name, GetAttributes,
\* ReadFile and WriteFile all act on the lowest-index entry and no step
\* changes the content of a later duplicate; when a directory and a file
\* share a name, GetAttributes reports Directory while ReadFile and WriteFile
\* still act on the file.
C15_FirstMatch ==
    [][/\ \A j \in 1 .. curr_file_idx :
             (\E i \in 0 .. (j - 1) : files_list[i] = files_list[j])
                 => Row(files_content', j) = Row(files_content, j)
       /\ \A p \in FilePaths :
             Matches(p) # {} =>
                 /\ IF is_dir(p) = 1
                    THEN getattr(p) = DirAttrs
                    ELSE /\ getattr(p).st_mode = "S_IFREG"
                         /\ getattr(p).st_size
                                = strlen(files_content, Lowest(p) * BufSize)
                 /\ read(p, BufSize - 1, 0).ret
                        = strlen(files_content, Lowest(p) * BufSize)
                 /\ read(p, BufSize - 1, 0).out
                        = Content(files_content, Lowest(p))
                 /\ \A arg \in WriteArgs :
                       (/\ WriteStep(p, arg[1], arg[2])
                        /\ arg[2] + Len(arg[1]) <= BufSize - 1)
                           => \A k \in 1 .. Len(arg[1]) :
                                 files_content'[Lowest(p) * BufSize
                                                + arg[2] + k - 1] = arg[1][k]]_vars

\* A WriteFile went to a name that two files and a directory share: the
\* first file holds the data, the second is still empty.
C15_Witness ==
    /\ WroteFile /\ last.ub = "ok" /\ last.ret > 0
    /\ curr_file_idx = 1
    /\ files_list[0] = Tail(last.path) /\ files_list[1] = Tail(last.path)
    /\ is_dir(last.path) = 1
    /\ strlen(files_content, 0) > 0
    /\ strlen(files_content, BufSize) = 0

\* Both unserialized calls have returned.
BothDone == race # NoRace /\ \A t \in {1, 2} : race.thr[t].pc = "done"

\* The tables the two calls leave when one runs to its end before the other
\* starts, in either order.
SerialResults ==
    LET n1 == race.thr[1].name
        n2 == race.thr[2].name
        f(t, n) == IF race.thr[1].kind = "mkdir"
                   THEN after_add_dir(t, n) ELSE after_add_file(t, n)
    IN  {f(f(race.start, n1), n2), f(f(race.start, n2), n1)}

\* C16: nothing serializes the handlers themselves.  When two CreateFile (or
\* two CreateDirectory) calls run with their statements interleaved, some
\* interleaving ends in a table that neither serial order produces (C16_Witness
\* is such an end); when no statement of one call runs between the first and
\* the last statement of the other, the calls end in the table of a serial
\* order, each append being atomic.
C16_SerializedAtomic ==
    (BothDone /\ ~race.overlap) =>
        /\ proc = "running"
        /\ table \in SerialResults

\* Two interleaved CreateFile calls on an empty table have returned, and the
\* table is that of neither serial order: a row below the cursor has no
\* name, and one of the two names is stored nowhere.
C16_Witness ==
    /\ BothDone /\ race.overlap /\ proc = "running"
    /\ race.thr[1].kind = "mknod"
    /\ race.start[4] = -1
    /\ table \notin SerialResults
    /\ curr_file_idx = 1
    /\ files_list[0] = << >>
    /\ \E t \in {1, 2} :
          \A i \in 0 .. (NumSlots - 1) : files_list[i] # race.thr[t].name

\* C17: frame of WriteFile.  For every existing file i, every data length and
\* every non-negative offset, every byte WriteFile modifies lies in file i's
\* own row of files_content; the names, the directories, the cursors and the
\* content of every other file are unchanged.  Stated here for the writes
\* all of whose stores fall inside files_content.
C17_WriteFrame ==
    [][\A p \in FilePaths : \A arg \in WriteArgs :
          (WriteStep(p, arg[1], arg[2]) /\ last'.ub = "ok") =>
              LET base == get_file_index(p) * BufSize
              IN  /\ \A a \in 0 .. (MemSize - 1) :
                        files_content'[a] # files_content[a]
                            => a \in base .. (base + BufSize - 1)
                  /\ UNCHANGED <<dir_list, curr_dir_idx, files_list,
                                 curr_file_idx, curr_file_content_idx>>]_vars

\* C18: the registries are append-only.  Every operation leaves every name
\* already stored unchanged and never decreases a cursor; GetAttributes,
\* ListDirectory and ReadFile change nothing at all; hence a path on which
\* GetAttributes succeeds once succeeds after every later step, and a path
\* reported as Directory is reported as Directory ever after.
C18_AppendOnly ==
    [][/\ \A i \in 0 .. curr_dir_idx : dir_list'[i] = dir_list[i]
       /\ \A i \in 0 .. curr_file_idx : files_list'[i] = files_list[i]
       /\ curr_dir_idx' >= curr_dir_idx
       /\ curr_file_idx' >= curr_file_idx
       /\ curr_file_content_idx' >= curr_file_content_idx
       /\ last'.op \in {"getattr", "readdir", "read"} => UNCHANGED table
       /\ \A p \in QueryPaths :
             /\ getattr(p).ret = 0 => getattr(p)'.ret = 0
             /\ getattr(p).st_mode = "S_IFDIR"
                    => getattr(p)'.st_mode = "S_IFDIR"]_vars

\* C19: in WriteFile, for every non-negative offset and every size, the int
\* values new_len and bytes_to_write are the unbounded values
\* min(offset + size, BufSize - 1) and min(offset + size, BufSize - 1) -
\* offset, so that the width of int never changes the value returned.
C19_NoTruncation ==
    [][\A p \in FilePaths : \A arg \in WriteArgs :
          WriteStep(p, arg[1], arg[2]) =>
              LET size == Len(arg[1])
                  w    == write(p, arg[1], size, arg[2])
                  cut  == Min(arg[2] + size, BufSize - 1)
              IN  /\ w.new_len = cut
                  /\ w.bytes_to_write = cut - arg[2]
                  /\ last'.ret = Max(cut - arg[2], 0)]_vars

====
